---- MODULE Spec2Model ----
(***************************************************************************)
(* A model of the SpecEI media pipeline:                                   *)
(*   - AI_Backend/supabase_sync.py       the fetch -> analyze -> store     *)
(*                                       orchestrator (sync_user_media)    *)
(*   - AI_Backend/groq_cloud_service.py  the AI provider gateway           *)
(*   - server/face_detection_server.py   POST /detect, /detect_base64      *)
(*   - server/whisper_server.py          POST /transcribe                  *)
(* Each program is a state machine of its own; a specification runs one    *)
(* of them and leaves the variables of the others at their idle values.    *)
(***************************************************************************)
EXTENDS Integers, Sequences, FiniteSets, TLC

VARIABLES
    \* ---- supabase_sync.py: one run of sync_user_media
    supabase_url,   \* TRUE iff SUPABASE_URL is configured (self.supabase_url truthy)
    groq_available, \* GroqCloudService.available of the singleton
    sync_pc,        \* position inside sync_user_media
    media_list,     \* what get_user_media returned
    idx,            \* 1-based position of the for loop in media_list
    processed,      \* local counter of sync_user_media
    errors,         \* local counter of sync_user_media
    analysis,       \* the analysis dict of the record in hand
    hist,           \* per record: the calls made for it and how it ended
    summary,        \* what sync_user_media returned
    \* ---- face_detection_server.py: the requests of one server
    face_pc,        \* "idle", "returned" (the try body returned), "raised", "failed"
    face_req,       \* the request in hand: endpoint, input, what imdecode gave
    face_exc,       \* the exception in flight
    face_ret,       \* the value the try body returned
    face_log,       \* the responses sent so far
    \* ---- whisper_server.py: the requests of one server process
    files,          \* the working directory: temp file name -> the request whose
                    \* bytes it holds, 0 when the file does not exist
    running,        \* the request whose handler holds the event loop, 0 if none
    w_pc,           \* per request: its position inside transcribe_audio
    w_req,          \* per request: filename, whether it wrote its file, its status
    \* ---- groq_cloud_service.py: one GroqCloudService and the calls made on it
    api_key,        \* TRUE iff GROQ_API_KEY is set
    available,      \* self.available
    g_pc,           \* "new", "ready", "body", "raised", "returned", "propagated"
    g_call,         \* the call in hand: what was called and what it met
    g_exc,          \* the exception in flight
    g_log,          \* what each finished call gave its caller
    \* ---- groq_cloud_service.py: generate_forensic_analysis
    f_json,         \* the JSON text of the forensic log the model writes
    f_out           \* what generate_forensic_analysis returned for each way
                    \* the model output carries that text

syncVars == <<supabase_url, groq_available, sync_pc, media_list, idx,
              processed, errors, analysis, hist, summary>>

faceVars == <<face_pc, face_req, face_exc, face_ret, face_log>>

whisperVars == <<files, running, w_pc, w_req>>

groqVars == <<api_key, available, g_pc, g_call, g_exc, g_log>>

forensicVars == <<f_json, f_out>>

vars == <<syncVars, faceVars, whisperVars, groqVars, forensicVars>>

\* What the actions of one program leave alone: the other programs.
notSyncVars == <<faceVars, whisperVars, groqVars, forensicVars>>
notFaceVars == <<syncVars, whisperVars, groqVars, forensicVars>>
notWhisperVars == <<syncVars, faceVars, groqVars, forensicVars>>
notGroqVars == <<syncVars, faceVars, whisperVars, forensicVars>>
notForensicVars == <<syncVars, faceVars, whisperVars, groqVars>>

(***************************************************************************)
(* Bounds                                                                  *)
(***************************************************************************)
\* longest media listing the store returns
MaxMedia == 3
\* most faces the cascade reports in one image
MaxFaces == 2
\* requests one face detection server answers in a run
MaxFaceRequests == 2
\* requests one speech server receives in a run
MaxWhisperRequests == 2
\* calls made on one GroqCloudService in a run
MaxGroqCalls == 2
\* longest string value, in tokens, inside a forensic log
MaxInner == 4

(***************************************************************************)
(* supabase_sync.py: data                                                  *)
(***************************************************************************)
MediaTypes == {"audio", "image", "video"}

\* One element of the JSON body of the listing.  dict = FALSE is an element
\* that is no JSON object (a number, a string, or a key of an object body).
\* file_url is "url" (a non-empty string), "" (empty), or "missing" (no key).
MediaItems ==
    [dict : {TRUE}, file_url : {"url"}, type : MediaTypes]
        \cup [dict : {TRUE}, file_url : {"", "missing"}, type : {"image"}]
        \cup [dict : {FALSE}, file_url : {"missing"}, type : {"image"}]

RECURSIVE SeqsUpTo(_, _)
SeqsUpTo(S, n) ==
    IF n = 0 THEN {<<>>}
    ELSE LET shorter == SeqsUpTo(S, n - 1)
         IN  shorter \cup {Append(s, x) : s \in {t \in shorter : Len(t) = n - 1}, x \in S}

\* What the GET on /rest/v1/media can do: raise, answer with a status other
\* than 200, or answer 200 with a JSON body.  A body is a list of items, an
\* object (iterating it yields its keys, which are strings) or a scalar
\* (null, a number, a boolean: len() of it raises).
ListResponses ==
    [kind : {"raises", "non200", "scalar"}, items : {<<>>}]
        \cup [kind : {"list"}, items : SeqsUpTo(MediaItems, MaxMedia)]
        \cup [kind : {"object"},
              items : SeqsUpTo([dict : {FALSE}, file_url : {"missing"}, type : {"image"}], 1)]

\* get_user_media: [] without a configured URL, on any exception (the request,
\* response.json(), len() of a scalar body) and on a status other than 200;
\* the decoded body otherwise.
get_user_media(url_configured, response) ==
    IF ~url_configured THEN <<>>
    ELSE IF response.kind \in {"raises", "non200", "scalar"} THEN <<>>
    ELSE response.items

\* media.get("file_url", ""): the default for a missing key.
GetFileUrl(media) == IF media.file_url = "missing" THEN "" ELSE media.file_url

\* download_media: None for a falsy URL, on a status other than 200 and on an
\* exception; response.content otherwise (which may be empty bytes).
DownloadResponses == {"content", "empty_content", "non200", "raises"}

download_media(file_url, response) ==
    IF file_url = "" THEN "None"
    ELSE IF response = "content" THEN "bytes"
    ELSE IF response = "empty_content" THEN "empty"
    ELSE "None"

\* Python truthiness of what download_media returned.
HasBytes(file_bytes) == file_bytes = "bytes"

NoAnalysis == [transcript |-> FALSE, description |-> FALSE, tags |-> FALSE]

\* What the model remembers of a record: how often each step was called for
\* it, the analysis paths attempted and those that failed, what
\* store_to_supermemory returned and how the record ended.
NoHist == [download |-> 0, analyze |-> 0, store |-> 0,
           paths |-> {}, failed |-> {},
           stored |-> "not_called", outcome |-> "pending"]

NoSummary == [status |-> "none", processed |-> 0, total |-> 0, errors |-> 0,
              has_errors |-> FALSE]

\* line 204: the summary of an empty listing carries no errors key.
NoMediaSummary == [status |-> "no_media", processed |-> 0, total |-> 0,
                   errors |-> 0, has_errors |-> FALSE]

\* lines 242-247
CompletedSummary(p, total, e) ==
    [status |-> "completed", processed |-> p, total |-> total, errors |-> e,
     has_errors |-> TRUE]

\* Mutant of OnMissingUrl: the record without a URL is counted as an error.
OnMissingUrl_Counted(p, e, i) == [processed |-> p, errors |-> e + 1, idx |-> i + 1]

\* lines 215-216: a record without a source URL is passed over (continue).
OnMissingUrl(p, e, i) == [processed |-> p, errors |-> e, idx |-> i + 1]

\* Mutant of OnDownloadFailed: the failed download is passed over uncounted.
OnDownloadFailed_Uncounted(p, e, i) == [processed |-> p, errors |-> e, idx |-> i + 1]

\* lines 221-223: no bytes: count an error and continue with the next record.
OnDownloadFailed(p, e, i) == [processed |-> p, errors |-> e + 1, idx |-> i + 1]

\* Mutant of OnException: the error is counted where it is raised and again
\* in the except clause.
OnException_CountedTwice(p, e, i) ==
    [processed |-> p, errors |-> e + 1 + 1, idx |-> i + 1]

\* lines 236-238: an exception of DOWNLOAD, ANALYZE or STORE is counted; the
\* for loop goes on.
OnException(p, e, i) == [processed |-> p, errors |-> e + 1, idx |-> i + 1]

\* Mutant of OnStored: the else is lost, processed is counted either way.
OnStored_NoElse(success, p, e, i) ==
    IF success THEN [processed |-> p + 1, errors |-> e, idx |-> i + 1]
    ELSE [processed |-> p + 1, errors |-> e + 1, idx |-> i + 1]

\* lines 231-234
OnStored(success, p, e, i) ==
    IF success THEN [processed |-> p + 1, errors |-> e, idx |-> i + 1]
    ELSE [processed |-> p, errors |-> e + 1, idx |-> i + 1]

\* groq.transcribe_audio as analyze_media sees it (lines 118-124): attempted
\* for audio and video only; it returns a dict, with or without an error key,
\* and never raises (groq_cloud_service.py:107-109).
TranscribeResults(media_type) ==
    IF media_type \in {"audio", "video"} THEN {"text", "empty_text", "error"}
    ELSE {"skipped"}

\* Mutant of VisionResults: `elif media_type == 'image'`, so a video that
\* was transcribed is not looked at.
VisionResults_ImageOnly(media_type) ==
    IF media_type = "image" THEN {"result", "error", "raises"}
    ELSE {"skipped"}

\* The vision path (lines 126-143): attempted for image and video only; the
\* import, the call and the conversion to tags sit in a try whose except
\* swallows every exception.
VisionResults(media_type) ==
    IF media_type \in {"image", "video"} THEN {"result", "error", "raises"}
    ELSE {"skipped"}

PathsOf(t, v) ==
    (IF t = "skipped" THEN {} ELSE {"transcribe"})
        \cup (IF v = "skipped" THEN {} ELSE {"vision"})

\* The paths that failed: transcribe_audio returned an error dict (line 121),
\* the vision result carried an error (line 134) or the vision path raised
\* into its except (lines 142-143).
FailedOf(t, v) ==
    (IF t = "error" THEN {"transcribe"} ELSE {})
        \cup (IF v \in {"error", "raises"} THEN {"vision"} ELSE {})

\* Mutant of analyze_media: no except around the vision path and a raise on
\* a transcription error, so a failed path leaves analyze_media as an
\* exception.
analyze_media_RaiseOnPathFailure(media_type, is_available) ==
    {[raised |-> TRUE, paths |-> {}, failed |-> {}, result |-> NoAnalysis]}
        \cup IF ~is_available
             THEN {[raised |-> FALSE, paths |-> {}, failed |-> {},
                    result |-> NoAnalysis]}
             ELSE {[raised |-> FailedOf(t, v) # {},
                    paths |-> PathsOf(t, v),
                    failed |-> FailedOf(t, v),
                    result |-> [transcript |-> (t = "text"),
                                description |-> (v = "result"),
                                tags |-> (v = "result")]] :
                   t \in TranscribeResults(media_type),
                   v \in VisionResults(media_type)}

\* analyze_media (lines 91-152): every way the call can end.  raised = TRUE
\* is an exception that leaves analyze_media: importing groq_cloud_service
\* fails (line 97), or, with the service available, the suffix of the file
\* name cannot be taken or the temporary file cannot be written (lines
\* 112-115, outside any try).  Without the service no path is attempted.
analyze_media(media_type, is_available) ==
    {[raised |-> TRUE, paths |-> {}, failed |-> {}, result |-> NoAnalysis]}
        \cup IF ~is_available
             THEN {[raised |-> FALSE, paths |-> {}, failed |-> {},
                    result |-> NoAnalysis]}
             ELSE {[raised |-> FALSE,
                    paths |-> PathsOf(t, v),
                    failed |-> FailedOf(t, v),
                    result |-> [transcript |-> (t = "text"),
                                description |-> (v = "result"),
                                tags |-> (v = "result")]] :
                   t \in TranscribeResults(media_type),
                   v \in VisionResults(media_type)}

\* What the STORE step meets: the write returns, the write (sm.add_memory)
\* raises, or an exception is raised before the try of line 182 (importing
\* supermemory_service, joining the tag names).
StoreEvents == {"write_ok", "write_raises", "raises_before_try"}

\* Mutant of store_to_supermemory: the except logs and falls through to True.
store_to_supermemory_AlwaysTrue(event) == TRUE

\* store_to_supermemory (lines 182-192): True after a write that returned,
\* False after a write that raised.
store_to_supermemory(event) == event = "write_ok"

\* Mutant of IsNoMedia: the short circuit of line 203 is never taken.
IsNoMedia_Never(ml) == FALSE

\* line 203: `not media_list`.
IsNoMedia(ml) == ml = <<>>

SyncInit ==
    /\ supabase_url \in BOOLEAN
    /\ groq_available \in BOOLEAN
    /\ sync_pc = "start"
    /\ media_list = <<>>
    /\ idx = 0
    /\ processed = 0
    /\ errors = 0
    /\ analysis = NoAnalysis
    /\ hist = <<>>
    /\ summary = NoSummary

Media == media_list[idx]

SetLoop(st) ==
    /\ processed' = st.processed
    /\ errors' = st.errors
    /\ idx' = st.idx
    /\ sync_pc' = "loop"

\* lines 201-207: LIST, and the short circuit on an empty listing.
SyncList ==
    /\ sync_pc = "start"
    /\ \E response \in ListResponses :
         LET ml == get_user_media(supabase_url, response)
         IN  /\ media_list' = ml
             /\ hist' = [i \in 1..Len(ml) |-> NoHist]
             /\ IF IsNoMedia(ml)
                THEN /\ sync_pc' = "done"
                     /\ summary' = NoMediaSummary
                     /\ idx' = 0
                ELSE /\ sync_pc' = "loop"
                     /\ summary' = summary
                     /\ idx' = 1
    /\ UNCHANGED <<supabase_url, groq_available, processed, errors, analysis>>
    /\ UNCHANGED notSyncVars

\* lines 209-216: the next record of the for loop.  media.get on a record
\* that is no dict raises AttributeError outside the try of line 218.
SyncNextRecord ==
    /\ sync_pc = "loop"
    /\ idx <= Len(media_list)
    /\ IF ~Media.dict
       THEN /\ sync_pc' = "raised"
            /\ hist' = [hist EXCEPT ![idx].outcome = "raised"]
            /\ UNCHANGED <<idx, processed, errors>>
       ELSE IF GetFileUrl(Media) = ""
       THEN /\ SetLoop(OnMissingUrl(processed, errors, idx))
            /\ hist' = [hist EXCEPT ![idx].outcome = "skipped"]
       ELSE /\ sync_pc' = "download"
            /\ UNCHANGED <<idx, processed, errors, hist>>
    /\ UNCHANGED <<supabase_url, groq_available, media_list, analysis, summary>>
    /\ UNCHANGED notSyncVars

\* lines 219-223: DOWNLOAD.
SyncDownload ==
    /\ sync_pc = "download"
    /\ \E response \in DownloadResponses :
         LET file_bytes == download_media(GetFileUrl(Media), response)
         IN  IF ~HasBytes(file_bytes)
             THEN /\ SetLoop(OnDownloadFailed(processed, errors, idx))
                  /\ hist' = [hist EXCEPT ![idx].download = @ + 1,
                                          ![idx].outcome = "download_failed"]
             ELSE /\ sync_pc' = "analyze"
                  /\ hist' = [hist EXCEPT ![idx].download = @ + 1]
                  /\ UNCHANGED <<idx, processed, errors>>
    /\ UNCHANGED <<supabase_url, groq_available, media_list, analysis, summary>>
    /\ UNCHANGED notSyncVars

\* line 226: ANALYZE.
SyncAnalyze ==
    /\ sync_pc = "analyze"
    /\ \E a \in analyze_media(Media.type, groq_available) :
         IF a.raised
         THEN /\ SetLoop(OnException(processed, errors, idx))
              /\ hist' = [hist EXCEPT ![idx].analyze = @ + 1,
                                      ![idx].paths = a.paths,
                                      ![idx].failed = a.failed,
                                      ![idx].outcome = "analyze_raised"]
              /\ analysis' = NoAnalysis
         ELSE /\ sync_pc' = "store"
              /\ hist' = [hist EXCEPT ![idx].analyze = @ + 1,
                                      ![idx].paths = a.paths,
                                      ![idx].failed = a.failed]
              /\ analysis' = a.result
              /\ UNCHANGED <<idx, processed, errors>>
    /\ UNCHANGED <<supabase_url, groq_available, media_list, summary>>
    /\ UNCHANGED notSyncVars

\* lines 229-238: STORE, and the count of its result.
SyncStore ==
    /\ sync_pc = "store"
    /\ \E event \in StoreEvents :
         IF event = "raises_before_try"
         THEN /\ SetLoop(OnException(processed, errors, idx))
              /\ hist' = [hist EXCEPT ![idx].store = @ + 1,
                                      ![idx].stored = "raised",
                                      ![idx].outcome = "store_raised"]
         ELSE LET success == store_to_supermemory(event)
              IN  /\ SetLoop(OnStored(success, processed, errors, idx))
                  /\ hist' = [hist EXCEPT ![idx].store = @ + 1,
                                          ![idx].stored =
                                              IF success THEN "True" ELSE "False",
                                          ![idx].outcome =
                                              IF event = "write_ok" THEN "written"
                                              ELSE "write_raised"]
    /\ analysis' = NoAnalysis
    /\ UNCHANGED <<supabase_url, groq_available, media_list, summary>>
    /\ UNCHANGED notSyncVars

\* lines 240-247: the for loop is exhausted.
SyncReturn ==
    /\ sync_pc = "loop"
    /\ idx > Len(media_list)
    /\ summary' = CompletedSummary(processed, Len(media_list), errors)
    /\ sync_pc' = "done"
    /\ UNCHANGED <<supabase_url, groq_available, media_list, idx, processed,
                   errors, analysis, hist>>
    /\ UNCHANGED notSyncVars

SyncNext ==
    \/ SyncList
    \/ SyncNextRecord
    \/ SyncDownload
    \/ SyncAnalyze
    \/ SyncStore
    \/ SyncReturn

(***************************************************************************)
(* face_detection_server.py                                                *)
(***************************************************************************)
\* What cv2.imdecode does with a buffer: it returns an image, returns None
\* (the bytes are no image), or raises cv2.error (an empty buffer).
Buffers == {"image", "undecodable", "empty"}

imdecode(buffer) ==
    IF buffer = "image" THEN [raises |-> FALSE, img |-> "image"]
    ELSE IF buffer = "undecodable" THEN [raises |-> FALSE, img |-> "None"]
    ELSE [raises |-> TRUE, img |-> "not_reached"]

\* The upload of POST /detect: file.read() raises, or gives a buffer.
DetectInputs ==
    [read : {"raises"}, buffer : {"empty"}, faces : {0}]
        \cup [read : {"ok"}, buffer : {"undecodable", "empty"}, faces : {0}]
        \cup [read : {"ok"}, buffer : {"image"}, faces : 0..MaxFaces]

\* The body of POST /detect_base64: data["image"] is absent or empty
\* ("none"), is no string ("not_str": `"," in image_data` raises TypeError),
\* or is a string, with or without a data URL prefix, whose base64 payload
\* b64decode rejects ("bad") or turns into a buffer.
Base64Inputs ==
    [image : {"none", "not_str"}, prefix : {FALSE}, b64 : {"bad"},
     buffer : {"empty"}, faces : {0}]
        \cup [image : {"str"}, prefix : BOOLEAN, b64 : {"bad"},
              buffer : {"empty"}, faces : {0}]
        \cup [image : {"str"}, prefix : BOOLEAN, b64 : {"ok"},
              buffer : {"undecodable", "empty"}, faces : {0}]
        \cup [image : {"str"}, prefix : BOOLEAN, b64 : {"ok"},
              buffer : {"image"}, faces : 0..MaxFaces]

NoExc == [class |-> "none", status_code |-> 0, detail |-> ""]

HTTPException(status_code, detail) ==
    [class |-> "HTTPException", status_code |-> status_code, detail |-> detail]

OtherException(class) == [class |-> class, status_code |-> 0, detail |-> class]

\* isinstance(e, Exception): HTTPException derives from Exception, as do
\* cv2.error, binascii.Error, TypeError and OSError.
IsException(exc) ==
    exc.class \in {"HTTPException", "cv2.error", "binascii.Error", "TypeError", "OSError"}

NoRet == [face_count |-> -1, has_size |-> FALSE]

Raises(exc) == [raised |-> TRUE, exc |-> exc, ret |-> NoRet, img |-> "not_reached"]

\* The try body of detect_faces (lines 47-90).
DetectBody(input) ==
    IF input.read = "raises" THEN Raises(OtherException("OSError"))
    ELSE LET d == imdecode(input.buffer)
         IN  IF d.raises THEN Raises(OtherException("cv2.error"))
             ELSE IF d.img = "None"
             THEN [Raises(HTTPException(400, "Could not decode image"))
                      EXCEPT !.img = "None"]
             ELSE [raised |-> FALSE, exc |-> NoExc, img |-> "image",
                   ret |-> [face_count |-> input.faces, has_size |-> TRUE]]

\* The try body of detect_faces_base64 (lines 103-143).
DetectBase64Body(input) ==
    IF input.image = "none"
    THEN Raises(HTTPException(400, "No image data provided"))
    ELSE IF input.image = "not_str" THEN Raises(OtherException("TypeError"))
    ELSE IF input.b64 = "bad" THEN Raises(OtherException("binascii.Error"))
    ELSE LET d == imdecode(input.buffer)
         IN  IF d.raises THEN Raises(OtherException("cv2.error"))
             ELSE IF d.img = "None"
             THEN [Raises(HTTPException(400, "Could not decode image"))
                      EXCEPT !.img = "None"]
             ELSE [raised |-> FALSE, exc |-> NoExc, img |-> "image",
                   ret |-> [face_count |-> input.faces, has_size |-> FALSE]]

\* lines 92-94 and 145-147: `except Exception as e` catches whatever the try
\* body raised, the HTTPException of status 400 included, and raises
\* HTTPException(status_code=500, detail=str(e)).
ExceptClause(exc) ==
    IF IsException(exc) THEN HTTPException(500, exc.detail)
    ELSE exc

NoFaceReq == [endpoint |-> "none", img |-> "not_reached"]

FaceIdle ==
    /\ face_pc = "idle"
    /\ face_req = NoFaceReq
    /\ face_exc = NoExc
    /\ face_ret = NoRet
    /\ face_log = <<>>

FaceInit == FaceIdle

FaceEnter(endpoint, out) ==
    /\ face_req' = [endpoint |-> endpoint, img |-> out.img]
    /\ face_exc' = out.exc
    /\ face_ret' = out.ret
    /\ face_pc' = IF out.raised THEN "raised" ELSE "returned"
    /\ UNCHANGED face_log

\* POST /detect: the try body, up to its return or its raise.
detect_faces ==
    /\ face_pc = "idle"
    /\ Len(face_log) < MaxFaceRequests
    /\ \E input \in DetectInputs : FaceEnter("/detect", DetectBody(input))
    /\ UNCHANGED notFaceVars

\* POST /detect_base64: the try body, up to its return or its raise.
detect_faces_base64 ==
    /\ face_pc = "idle"
    /\ Len(face_log) < MaxFaceRequests
    /\ \E input \in Base64Inputs : FaceEnter("/detect_base64", DetectBase64Body(input))
    /\ UNCHANGED notFaceVars

\* The except clause of either handler.
FaceExcept ==
    /\ face_pc = "raised"
    /\ face_exc' = ExceptClause(face_exc)
    /\ face_pc' = "failed"
    /\ UNCHANGED <<face_req, face_ret, face_log>>
    /\ UNCHANGED notFaceVars

\* The response leaves the server: 200 with the returned body, or the status
\* of the HTTPException that left the handler.
FaceRespond ==
    /\ face_pc \in {"returned", "failed"}
    /\ face_log' = Append(face_log,
                          [endpoint |-> face_req.endpoint,
                           img |-> face_req.img,
                           status |-> IF face_pc = "returned" THEN 200
                                      ELSE face_exc.status_code,
                           face_count |-> face_ret.face_count])
    /\ face_pc' = "idle"
    /\ face_req' = NoFaceReq
    /\ face_exc' = NoExc
    /\ face_ret' = NoRet
    /\ UNCHANGED notFaceVars

FaceNext ==
    \/ detect_faces
    \/ detect_faces_base64
    \/ FaceExcept
    \/ FaceRespond

(***************************************************************************)
(* whisper_server.py                                                       *)
(***************************************************************************)
WhisperRequests == 1..MaxWhisperRequests

\* file.filename of an upload; the handler writes to temp_<filename>.
Filenames == {"a.wav", "b.wav"}

NoWhisperReq == [filename |-> "a.wav", wrote |-> FALSE, status |-> 0]

WhisperIdle ==
    /\ files = [f \in Filenames |-> 0]
    /\ running = 0
    /\ w_pc = [r \in WhisperRequests |-> "new"]
    /\ w_req = [r \in WhisperRequests |-> NoWhisperReq]

WhisperInit == WhisperIdle

\* line 44
temp_filename(r) == w_req[r].filename

\* Mutant of Cleanup: the removal is the last statement of the try body, so
\* it is skipped when the body raised.
Cleanup_OnSuccessOnly(fs, name, raised) ==
    IF raised THEN fs ELSE [fs EXCEPT ![name] = 0]

\* lines 66-69: the finally clause removes the file if it exists, whether
\* the try body returned or raised.
Cleanup(fs, name, raised) ==
    IF fs[name] # 0 THEN [fs EXCEPT ![name] = 0] ELSE fs

\* Mutant of WhisperReceive: the handler is entered without waiting for the
\* handler that is running.
WhisperReceive_NoWait(r) ==
    /\ w_pc[r] = "new"
    /\ running' = r
    /\ \E name \in Filenames : w_req' = [w_req EXCEPT ![r].filename = name]
    /\ w_pc' = [w_pc EXCEPT ![r] = "open"]
    /\ UNCHANGED files
    /\ UNCHANGED notWhisperVars

\* lines 39-44: the handler starts.  It is a coroutine without an await, so
\* it holds the event loop of the process until it exits.
WhisperReceive(r) ==
    /\ w_pc[r] = "new"
    /\ running = 0
    /\ running' = r
    /\ \E name \in Filenames : w_req' = [w_req EXCEPT ![r].filename = name]
    /\ w_pc' = [w_pc EXCEPT ![r] = "open"]
    /\ UNCHANGED files
    /\ UNCHANGED notWhisperVars

\* line 46: open(temp_filename, "wb") creates or truncates the file, or raises.
WhisperOpen(r) ==
    /\ w_pc[r] = "open"
    /\ running = r
    /\ \/ /\ files' = [files EXCEPT ![temp_filename(r)] = r]
          /\ w_req' = [w_req EXCEPT ![r].wrote = TRUE]
          /\ w_pc' = [w_pc EXCEPT ![r] = "copy"]
       \/ /\ w_pc' = [w_pc EXCEPT ![r] = "except"]
          /\ UNCHANGED <<files, w_req>>
    /\ UNCHANGED running
    /\ UNCHANGED notWhisperVars

\* line 47: shutil.copyfileobj writes the upload, or raises part way.
WhisperCopy(r) ==
    /\ w_pc[r] = "copy"
    /\ running = r
    /\ \/ w_pc' = [w_pc EXCEPT ![r] = "transcribe"]
       \/ w_pc' = [w_pc EXCEPT ![r] = "except"]
    /\ UNCHANGED <<files, running, w_req>>
    /\ UNCHANGED notWhisperVars

\* lines 51-60: model.transcribe reads the file and the segments are joined;
\* the result is returned, or an exception is raised.
WhisperTranscribe(r) ==
    /\ w_pc[r] = "transcribe"
    /\ running = r
    /\ \/ /\ w_pc' = [w_pc EXCEPT ![r] = "finally"]
          /\ w_req' = [w_req EXCEPT ![r].status = 200]
       \/ /\ w_pc' = [w_pc EXCEPT ![r] = "except"]
          /\ UNCHANGED w_req
    /\ UNCHANGED <<files, running>>
    /\ UNCHANGED notWhisperVars

\* lines 62-64: any exception becomes HTTPException(500).
WhisperExcept(r) ==
    /\ w_pc[r] = "except"
    /\ running = r
    /\ w_req' = [w_req EXCEPT ![r].status = 500]
    /\ w_pc' = [w_pc EXCEPT ![r] = "finally"]
    /\ UNCHANGED <<files, running>>
    /\ UNCHANGED notWhisperVars

\* lines 66-69: the finally clause; then the handler exits and frees the loop.
WhisperFinally(r) ==
    /\ w_pc[r] = "finally"
    /\ running = r
    /\ files' = Cleanup(files, temp_filename(r), w_req[r].status = 500)
    /\ w_pc' = [w_pc EXCEPT ![r] = "done"]
    /\ running' = 0
    /\ UNCHANGED w_req
    /\ UNCHANGED notWhisperVars

WhisperNext ==
    \E r \in WhisperRequests :
        \/ WhisperReceive(r)
        \/ WhisperOpen(r)
        \/ WhisperCopy(r)
        \/ WhisperTranscribe(r)
        \/ WhisperExcept(r)
        \/ WhisperFinally(r)

(***************************************************************************)
(* groq_cloud_service.py: transcribe_audio and chat_completion             *)
(***************************************************************************)
\* What a call of transcribe_audio meets once the service is available:
\* opening the audio file raises; the provider call raises; the response
\* carries segments, carries none (the single segment fallback), carries
\* segments that have no get ("bad_segments": AttributeError), or carries
\* no text ("no_text": len() of it raises TypeError).
TranscribeEnvs ==
    [op : {"transcribe_audio"}, stream : {FALSE}, open : {"raises"},
     provider : {"not_called"}, response : {"none"}]
        \cup [op : {"transcribe_audio"}, stream : {FALSE}, open : {"ok"},
              provider : {"raises"}, response : {"none"}]
        \cup [op : {"transcribe_audio"}, stream : {FALSE}, open : {"ok"},
              provider : {"ok"},
              response : {"segments", "no_segments", "bad_segments", "no_text"}]

\* What a call of chat_completion meets: the provider call raises (for a
\* stream also while the chunks are read), or the response carries content
\* or carries no choices (choices[0] raises IndexError).
ChatEnvs ==
    [op : {"chat_completion"}, stream : BOOLEAN, open : {"ok"},
     provider : {"raises"}, response : {"none"}]
        \cup [op : {"chat_completion"}, stream : BOOLEAN, open : {"ok"},
              provider : {"ok"}, response : {"content", "no_choices"}]

NoGroqCall == [op |-> "none", stream |-> FALSE, open |-> "ok",
               provider |-> "not_called", response |-> "none",
               was_available |-> FALSE, has_error |-> FALSE]

\* The try body of transcribe_audio (lines 73-105): the class of the
\* exception it raises, "none" when it returns its result.
TranscribeBody(env) ==
    IF env.open = "raises" THEN "OSError"
    ELSE IF env.provider = "raises" THEN "APIError"
    ELSE IF env.response = "bad_segments" THEN "AttributeError"
    ELSE IF env.response = "no_text" THEN "TypeError"
    ELSE "none"

\* The try body of chat_completion (lines 138-173).
ChatBody(env) ==
    IF env.provider = "raises" THEN "APIError"
    ELSE IF env.response = "no_choices" THEN "IndexError"
    ELSE "none"

\* Mutant of GroqCatches: only the provider's own errors are caught.
GroqCatches_ApiOnly(class) == class = "APIError"

\* lines 107 and 175: `except Exception` catches every exception class the
\* bodies raise.
GroqCatches(class) ==
    class \in {"OSError", "APIError", "AttributeError", "TypeError", "IndexError"}

GroqIdle ==
    /\ api_key = FALSE
    /\ available = FALSE
    /\ g_pc = "new"
    /\ g_call = NoGroqCall
    /\ g_exc = "none"
    /\ g_log = <<>>

GroqInit ==
    /\ api_key \in BOOLEAN
    /\ available = FALSE
    /\ g_pc = "new"
    /\ g_call = NoGroqCall
    /\ g_exc = "none"
    /\ g_log = <<>>

\* __init__ (lines 37-53): available only with a key and a client that was
\* constructed; a constructor that raises is logged.
GroqConstruct ==
    /\ g_pc = "new"
    /\ \/ /\ api_key              \* Groq(api_key=...) returned
          /\ available' = TRUE
       \/ /\ api_key              \* Groq(api_key=...) raised
          /\ available' = FALSE
       \/ /\ ~api_key
          /\ available' = FALSE
    /\ g_pc' = "ready"
    /\ UNCHANGED <<api_key, g_call, g_exc, g_log>>
    /\ UNCHANGED notGroqVars

\* The call in hand once the availability check has been made.
Entered(env) ==
    IF ~available
    THEN [env @@ [was_available |-> FALSE, has_error |-> TRUE]
             EXCEPT !.open = "ok", !.provider = "not_called", !.response = "none"]
    ELSE env @@ [was_available |-> TRUE, has_error |-> FALSE]

\* lines 59-70: transcribe_audio is called; an unavailable service returns
\* its error result at once.
transcribe_audio ==
    /\ g_pc = "ready"
    /\ Len(g_log) < MaxGroqCalls
    /\ \E env \in TranscribeEnvs : g_call' = Entered(env)
    /\ g_pc' = IF available THEN "body" ELSE "returned"
    /\ UNCHANGED <<api_key, available, g_exc, g_log>>
    /\ UNCHANGED notGroqVars

\* lines 115-135: chat_completion is called; an unavailable service returns
\* its error result at once.
chat_completion ==
    /\ g_pc = "ready"
    /\ Len(g_log) < MaxGroqCalls
    /\ \E env \in ChatEnvs : g_call' = Entered(env)
    /\ g_pc' = IF available THEN "body" ELSE "returned"
    /\ UNCHANGED <<api_key, available, g_exc, g_log>>
    /\ UNCHANGED notGroqVars

\* The try body runs: it returns a result without an error key, or raises.
GroqBody ==
    /\ g_pc = "body"
    /\ LET class == IF g_call.op = "transcribe_audio" THEN TranscribeBody(g_call)
                    ELSE ChatBody(g_call)
       IN  /\ g_exc' = class
           /\ g_pc' = IF class = "none" THEN "returned" ELSE "raised"
    /\ UNCHANGED <<api_key, available, g_call, g_log>>
    /\ UNCHANGED notGroqVars

\* lines 107-109 and 175-177: the except clause turns the exception into a
\* result with an error key; an exception it does not catch leaves the call.
GroqExcept ==
    /\ g_pc = "raised"
    /\ IF GroqCatches(g_exc)
       THEN /\ g_call' = [g_call EXCEPT !.has_error = TRUE]
            /\ g_pc' = "returned"
            /\ g_exc' = "none"
       ELSE /\ g_pc' = "propagated"
            /\ UNCHANGED <<g_call, g_exc>>
    /\ UNCHANGED <<api_key, available, g_log>>
    /\ UNCHANGED notGroqVars

\* The caller receives the result.
GroqReturn ==
    /\ g_pc = "returned"
    /\ g_log' = Append(g_log, g_call)
    /\ g_call' = NoGroqCall
    /\ g_pc' = "ready"
    /\ UNCHANGED <<api_key, available, g_exc>>
    /\ UNCHANGED notGroqVars

GroqNext ==
    \/ GroqConstruct
    \/ transcribe_audio
    \/ chat_completion
    \/ GroqBody
    \/ GroqExcept
    \/ GroqReturn

(***************************************************************************)
(* groq_cloud_service.py: generate_forensic_analysis                       *)
(***************************************************************************)
\* Text is a sequence of tokens.  A token is a run of characters the code
\* never looks inside: FENCE is the three backticks of a Markdown fence,
\* JSONWORD the word json, QUOTE the double quote, NEWLINE a line break, the
\* braces stand for themselves and "a" for any other run of characters.
FENCE == "fence"
JSONWORD == "json"
QUOTE == "quote"
NEWLINE == "nl"

StringTokens == {FENCE, JSONWORD, "{", "}", "a"}

\* The JSON texts of a forensic log: an object with no member, or with a
\* member that holds a string of up to MaxInner tokens.
LogTexts ==
    {<<"{", "}">>}
        \cup {<<"{", QUOTE>> \o inner \o <<QUOTE, "}">> :
              inner \in SeqsUpTo(StringTokens, MaxInner)}

\* s[i:] of Python, with i counted from 1.
From(s, i) == SubSeq(s, i, Len(s))

\* str.find: the first position from i on where pat occurs in s, 0 if none.
RECURSIVE Find(_, _, _)
Find(s, pat, i) ==
    IF i + Len(pat) - 1 > Len(s) THEN 0
    ELSE IF SubSeq(s, i, i + Len(pat) - 1) = pat THEN i
    ELSE Find(s, pat, i + 1)

\* `pat in s`
Contains(s, pat) == Find(s, pat, 1) # 0

\* str.split(pat): the pieces between the occurrences of pat, left to right.
RECURSIVE Split(_, _)
Split(s, pat) ==
    LET j == Find(s, pat, 1)
    IN  IF j = 0 THEN <<s>>
        ELSE <<SubSeq(s, 1, j - 1)>> \o Split(From(s, j + Len(pat)), pat)

\* str.strip(): leading and trailing whitespace is dropped.
RECURSIVE Strip(_)
Strip(s) ==
    IF s = <<>> THEN s
    ELSE IF s[1] = NEWLINE THEN Strip(From(s, 2))
    ELSE IF s[Len(s)] = NEWLINE THEN Strip(SubSeq(s, 1, Len(s) - 1))
    ELSE s

\* Whether the tokens of s from i on are string members and then the closing
\* brace, which is the last token.
RECURSIVE MembersClose(_, _, _)
MembersClose(s, i, in_string) ==
    IF i > Len(s) THEN FALSE
    ELSE IF in_string
    THEN MembersClose(s, i + 1, s[i] # QUOTE)
    ELSE IF s[i] = QUOTE THEN MembersClose(s, i + 1, TRUE)
    ELSE IF s[i] = NEWLINE THEN MembersClose(s, i + 1, FALSE)
    ELSE s[i] = "}" /\ i = Len(s)

\* json.loads(s) followed by forensic_log["media_id"] = ... (lines 265-267):
\* the text must be a JSON object; anything else raises (no JSON at all, or
\* JSON that is no dict and takes no item assignment).
IsJsonObject(s) == Len(s) >= 2 /\ s[1] = "{" /\ MembersClose(s, 2, FALSE)

NotRun == [kind |-> "not_run", log |-> <<>>]
None == [kind |-> "None", log |-> <<>>]

\* lines 259-263: the Markdown wrapping is cut away.
CleanMarkdown(content) ==
    IF Contains(content, <<FENCE, JSONWORD>>)
    THEN Split(Split(content, <<FENCE, JSONWORD>>)[2], <<FENCE>>)[1]
    ELSE IF Contains(content, <<FENCE>>)
    THEN Split(Split(content, <<FENCE>>)[2], <<FENCE>>)[1]
    ELSE content

\* lines 252-274: None for an error result and for text that does not decode;
\* the decoded log otherwise.
generate_forensic_analysis(result) ==
    IF result.has_error THEN None
    ELSE LET text == Strip(CleanMarkdown(result.content))
         IN  IF IsJsonObject(text) THEN [kind |-> "log", log |-> text]
             ELSE None

\* The model output for a log text: as it is, in a ```json fence, in a bare
\* ``` fence.
Plain(text) == text
FencedJson(text) == <<FENCE, JSONWORD, NEWLINE>> \o text \o <<NEWLINE, FENCE>>
FencedBare(text) == <<FENCE, NEWLINE>> \o text \o <<NEWLINE, FENCE>>

ForensicIdle ==
    /\ f_json = <<"{", "}">>
    /\ f_out = [plain |-> NotRun, fenced_json |-> NotRun, fenced_bare |-> NotRun,
                error |-> NotRun]

ForensicInit ==
    /\ f_json \in LogTexts
    /\ f_out = [plain |-> NotRun, fenced_json |-> NotRun, fenced_bare |-> NotRun,
                error |-> NotRun]

Completion(content) == [has_error |-> FALSE, content |-> content]

\* generate_forensic_analysis on model output that is the bare JSON text.
ForensicPlain ==
    /\ f_out.plain = NotRun
    /\ f_out' = [f_out EXCEPT
                   !.plain = generate_forensic_analysis(Completion(Plain(f_json)))]
    /\ UNCHANGED f_json
    /\ UNCHANGED notForensicVars

\* ... on model output that wraps the JSON text in a ```json fence.
ForensicFencedJson ==
    /\ f_out.fenced_json = NotRun
    /\ f_out' = [f_out EXCEPT
                   !.fenced_json =
                       generate_forensic_analysis(Completion(FencedJson(f_json)))]
    /\ UNCHANGED f_json
    /\ UNCHANGED notForensicVars

\* ... on model output that wraps the JSON text in a bare ``` fence.
ForensicFencedBare ==
    /\ f_out.fenced_bare = NotRun
    /\ f_out' = [f_out EXCEPT
                   !.fenced_bare =
                       generate_forensic_analysis(Completion(FencedBare(f_json)))]
    /\ UNCHANGED f_json
    /\ UNCHANGED notForensicVars

\* ... when chat_completion returned an error result.
ForensicError ==
    /\ f_out.error = NotRun
    /\ f_out' = [f_out EXCEPT
                   !.error = generate_forensic_analysis(
                                 [has_error |-> TRUE, content |-> <<>>])]
    /\ UNCHANGED f_json
    /\ UNCHANGED notForensicVars

ForensicNext ==
    \/ ForensicPlain
    \/ ForensicFencedJson
    \/ ForensicFencedBare
    \/ ForensicError

SyncIdle ==
    /\ supabase_url = FALSE
    /\ groq_available = FALSE
    /\ sync_pc = "start"
    /\ media_list = <<>>
    /\ idx = 0
    /\ processed = 0
    /\ errors = 0
    /\ analysis = NoAnalysis
    /\ hist = <<>>
    /\ summary = NoSummary

Init == SyncInit /\ FaceIdle /\ WhisperIdle /\ GroqIdle /\ ForensicIdle

Next == SyncNext

\* One run of sync_user_media.
Spec == Init /\ [][Next]_vars

InitFace == SyncIdle /\ FaceInit /\ WhisperIdle /\ GroqIdle /\ ForensicIdle

\* One face detection server.
SpecFace == InitFace /\ [][FaceNext]_vars

InitWhisper == SyncIdle /\ FaceIdle /\ WhisperInit /\ GroqIdle /\ ForensicIdle

\* One speech server.
SpecWhisper == InitWhisper /\ [][WhisperNext]_vars

InitGroq == SyncIdle /\ FaceIdle /\ WhisperIdle /\ GroqInit /\ ForensicIdle

\* One GroqCloudService and the calls made on it.
SpecGroq == InitGroq /\ [][GroqNext]_vars

InitForensic == SyncIdle /\ FaceIdle /\ WhisperIdle /\ GroqIdle /\ ForensicInit

\* generate_forensic_analysis on the ways one log text can arrive.
SpecForensic == InitForensic /\ [][ForensicNext]_vars

(***************************************************************************)
(* sync_user_media: properties                                             *)
(***************************************************************************)
Records == DOMAIN hist

ErrorOutcomes == {"download_failed", "analyze_raised", "store_raised", "write_raised"}

CountOutcome(S) == Cardinality({i \in Records : hist[i].outcome \in S})

SyncEnded == sync_pc \in {"done", "raised"}

\* C1: whenever sync_user_media returns a summary, processed + errors <= total,
\* and the status is "completed" whenever total > 0.
C1_SummaryWithinTotal ==
    sync_pc = "done" =>
        /\ summary.processed + summary.errors <= summary.total
        /\ (summary.total > 0 => summary.status = "completed")

\* A run that returned a summary counting a processed and an error record.
C1_Witness ==
    /\ sync_pc = "done"
    /\ summary.total >= 2
    /\ summary.processed >= 1
    /\ summary.errors >= 1

\* C3: sync_user_media never raises past its own boundary.
C3_NeverRaises == sync_pc # "raised"

\* C4: a download that yields no bytes counts exactly one error for the
\* record, runs neither ANALYZE nor STORE for it, and the loop goes on with
\* the next record: when the run has ended the next record has been taken
\* up, and in a run that returned every record after it has been.
C4_DownloadFailureContinues ==
    \A i \in Records :
        hist[i].outcome = "download_failed" =>
            /\ hist[i].download = 1
            /\ hist[i].analyze = 0
            /\ hist[i].store = 0
            /\ hist[i].paths = {}
            /\ errors = CountOutcome(ErrorOutcomes)
            /\ processed = CountOutcome({"written"})
            /\ idx > i
            /\ (SyncEnded /\ i < Len(media_list) => hist[i + 1].outcome # "pending")
            /\ (sync_pc = "done" => \A j \in Records : hist[j].outcome # "pending")

\* A run that returned after a failed download followed by a stored record.
C4_Witness ==
    /\ sync_pc = "done"
    /\ \E i, j \in Records :
        /\ i < j
        /\ hist[i].outcome = "download_failed"
        /\ hist[j].outcome = "written"

\* C5: a record without a source URL is passed over without DOWNLOAD, ANALYZE
\* or STORE, adds to neither processed nor errors, and is part of total.
C5_MissingUrlSkipped ==
    /\ \A i \in Records :
        media_list[i].dict /\ GetFileUrl(media_list[i]) = "" =>
            /\ hist[i].outcome \in {"pending", "skipped"}
            /\ hist[i].download = 0
            /\ hist[i].analyze = 0
            /\ hist[i].store = 0
    /\ processed + errors = CountOutcome(ErrorOutcomes \cup {"written"})
    /\ (sync_pc = "done" /\ summary.status = "completed" =>
            /\ summary.total = Len(media_list)
            /\ summary.processed + summary.errors
                   = summary.total - CountOutcome({"skipped"}))

\* A run that returned with a skipped record: the counts do not add up to total.
C5_Witness ==
    /\ sync_pc = "done"
    /\ \E i \in Records : hist[i].outcome = "skipped"
    /\ \E i \in Records : hist[i].outcome = "written"
    /\ summary.processed + summary.errors < summary.total

RECURSIVE CallsUpTo(_)
CallsUpTo(n) ==
    IF n = 0 THEN 0
    ELSE hist[n].download + hist[n].analyze + hist[n].store + CallsUpTo(n - 1)

\* C6: on an empty listing sync_user_media returns exactly
\* {status: "no_media", processed: 0, total: 0} and calls no DOWNLOAD,
\* ANALYZE or STORE.
C6_NoMedia ==
    sync_pc = "done" /\ Len(media_list) = 0 =>
        /\ summary.status = "no_media"
        /\ summary.processed = 0
        /\ summary.total = 0
        /\ ~summary.has_errors
        /\ CallsUpTo(Len(hist)) = 0

\* A run over an empty listing of a configured store.
C6_Witness ==
    /\ sync_pc = "done"
    /\ supabase_url
    /\ media_list = <<>>
    /\ summary.status = "no_media"

\* C9: in a STORE step, a write that raises makes store_to_supermemory return
\* False and adds one to errors and nothing to processed; a write that
\* returns adds one to processed and nothing to errors.
C9_StoreCountedOnce ==
    [][sync_pc = "store" =>
          LET h == hist'[idx]
          IN  /\ h.outcome = "write_raised" =>
                    /\ h.stored = "False"
                    /\ errors' = errors + 1
                    /\ processed' = processed
              /\ h.outcome = "written" =>
                    /\ h.stored = "True"
                    /\ processed' = processed + 1
                    /\ errors' = errors]_vars

\* A run in which one write raised and another returned.
C9_Witness ==
    /\ \E i \in Records : hist[i].outcome = "write_raised" /\ hist[i].stored = "False"
    /\ \E i \in Records : hist[i].outcome = "written" /\ hist[i].stored = "True"

(***************************************************************************)
(* face_detection_server.py: properties                                    *)
(***************************************************************************)
\* C2: a request whose buffer cv2.imdecode turns into no image is answered
\* with a 400-class status and never with a 500-class one, on POST /detect
\* and on POST /detect_base64.
C2_UndecodableIs400 ==
    \A k \in DOMAIN face_log :
        face_log[k].img = "None" =>
            /\ face_log[k].status \in 400..499
            /\ face_log[k].status \notin 500..599

(***************************************************************************)
(* whisper_server.py: properties                                           *)
(***************************************************************************)
\* C8: once a /transcribe request has finished, with a result or with an
\* error, the file temp_<filename> it wrote no longer exists: the path holds
\* no file, or a file a later request in flight has written since.
C8_TempFileRemoved ==
    \A r \in WhisperRequests :
        w_pc[r] = "done" =>
            \/ files[temp_filename(r)] = 0
            \/ /\ files[temp_filename(r)] = running
               /\ running # r

\* Two finished requests that both wrote the same temporary file: one
\* failed and one returned a result.
C8_Witness ==
    \E r1, r2 \in WhisperRequests :
        /\ w_pc[r1] = "done" /\ w_req[r1].wrote /\ w_req[r1].status = 500
        /\ w_pc[r2] = "done" /\ w_req[r2].wrote /\ w_req[r2].status = 200
        /\ temp_filename(r1) = temp_filename(r2)

(***************************************************************************)
(* groq_cloud_service.py: properties                                       *)
(***************************************************************************)
GroqFailed(c) ==
    \/ ~c.was_available
    \/ c.open = "raises"
    \/ c.provider = "raises"
    \/ c.response \in {"bad_segments", "no_text", "no_choices"}

\* C10: no exception leaves transcribe_audio or chat_completion; a call on
\* an unavailable service, or one whose provider call or response decoding
\* failed, returns a result with an error key; a result without an error
\* key is returned only after a provider call that succeeded.
C10_ErrorsAreTagged ==
    /\ g_pc # "propagated"
    /\ \A k \in DOMAIN g_log :
        /\ GroqFailed(g_log[k]) => g_log[k].has_error
        /\ ~g_log[k].has_error =>
               g_log[k].was_available /\ g_log[k].provider = "ok"

\* A service that answered one call whose response could not be decoded and
\* one call that succeeded.
C10_Witness ==
    /\ \E k \in DOMAIN g_log :
        /\ g_log[k].provider = "ok"
        /\ g_log[k].response \in {"bad_segments", "no_text", "no_choices"}
        /\ g_log[k].has_error
    /\ \E k \in DOMAIN g_log : ~g_log[k].has_error

(***************************************************************************)
(* generate_forensic_analysis: properties                                  *)
(***************************************************************************)
\* C7: a JSON forensic log wrapped in a ```json fence or in a bare ``` fence
\* is parsed to the same result as the same JSON text unwrapped, for every
\* log text.
C7_FencedParsesAsPlain ==
    /\ f_out.plain # NotRun /\ f_out.fenced_json # NotRun
           => f_out.fenced_json = f_out.plain
    /\ f_out.plain # NotRun /\ f_out.fenced_bare # NotRun
           => f_out.fenced_bare = f_out.plain

(***************************************************************************)
(* analyze_media: properties                                               *)
(***************************************************************************)
\* The paths the declared type alone asks for.
ExpectedPaths(media_type) ==
    CASE media_type = "audio" -> {"transcribe"}
      [] media_type = "image" -> {"vision"}
      [] media_type = "video" -> {"transcribe", "vision"}

Analyzed(i) == hist[i].analyze = 1

\* C11 as stated: whenever ANALYZE ran for a record, the paths attempted are
\* those of its declared type, whatever else holds (the availability of the
\* AI provider included).
C11_BranchesOnTypeAlone ==
    \A i \in Records :
        Analyzed(i) => hist[i].paths = ExpectedPaths(media_list[i].type)

\* C11 as amended: with the AI provider available, and unless an exception
\* leaves analyze_media before its branches, the paths attempted are those of
\* the declared type: transcription only for audio, vision only for image,
\* both for video.  With the provider unavailable, or after such an
\* exception, no path is attempted.
C11_BranchesOnTypeWhenAvailable ==
    \A i \in Records :
        Analyzed(i) =>
            hist[i].paths =
                IF groq_available /\ hist[i].outcome # "analyze_raised"
                THEN ExpectedPaths(media_list[i].type)
                ELSE {}

\* A run with the provider available that analyzed a video on both paths and
\* an audio record on the transcription path alone.
C11_Witness ==
    /\ groq_available
    /\ \E i \in Records :
        /\ media_list[i].type = "video"
        /\ hist[i].paths = {"transcribe", "vision"}
    /\ \E i \in Records :
        /\ media_list[i].type = "audio"
        /\ hist[i].paths = {"transcribe"}

\* The download of record i returned bytes and the loop is past its ANALYZE
\* call (the record ended, or STORE is about to be called).
Downloaded(i) ==
    /\ hist[i].download = 1
    /\ hist[i].outcome # "download_failed"
    /\ (hist[i].outcome = "pending" => Analyzed(i))

RecordEnded(i) == hist[i].outcome # "pending"

\* C12 as stated: every record whose download returned bytes gets its STORE
\* call, whatever happened in ANALYZE.
C12_StoreWhateverAnalyzeDoes ==
    \A i \in Records :
        (Downloaded(i) /\ RecordEnded(i)) => hist[i].store = 1

\* C12 as amended: a failed transcription or vision path never leaves
\* analyze_media as an exception: the call returns a partial result (the
\* description present exactly when the vision path was attempted and did
\* not fail, a transcript only when the transcription path did not fail),
\* and every record whose analyze_media call returned gets its STORE call.
\* Only an exception raised before the paths ends the record without STORE,
\* and that record is counted as an error.
C12_PathFailureNeverBlocksStore ==
    \A i \in Records :
        Analyzed(i) =>
            /\ hist[i].failed \subseteq hist[i].paths
            /\ (hist[i].paths # {} => hist[i].outcome # "analyze_raised")
            /\ (hist[i].outcome = "analyze_raised" => hist[i].store = 0)
            /\ ((RecordEnded(i) /\ hist[i].outcome # "analyze_raised")
                    => hist[i].store = 1)
            /\ ((sync_pc = "store" /\ idx = i) =>
                    /\ analysis.description
                           = ("vision" \in hist[i].paths \ hist[i].failed)
                    /\ (analysis.transcript
                           => "transcribe" \in hist[i].paths \ hist[i].failed))

\* A video whose transcription failed and whose vision path failed, stored
\* all the same, and a video with a failed transcription and a description.
C12_Witness ==
    /\ \E i \in Records :
        /\ hist[i].failed = {"transcribe", "vision"}
        /\ hist[i].store = 1
        /\ hist[i].outcome = "written"
    /\ \E i \in Records :
        /\ hist[i].failed = {"transcribe"}
        /\ hist[i].paths = {"transcribe", "vision"}
        /\ hist[i].store = 1

(***************************************************************************)
(* /transcribe: requests with the same filename                            *)
(***************************************************************************)
\* Request r has written its temporary file and has not finished
\* transcribing it.
Transcribing(r) == w_pc[r] = "transcribe"

InHandler(r) == w_pc[r] \notin {"new", "done"}

HasUrl(i) == media_list[i].dict /\ GetFileUrl(media_list[i]) # ""

WellFormed == \A i \in Records : media_list[i].dict

SyncCompleted == sync_pc = "done" /\ summary.status = "completed"

\* C14: in a completed run over well-formed records, every record with a
\* source URL was downloaded once and stored at most once, and it is counted
\* in exactly one of processed (it was written) or errors (any other end),
\* so that processed + errors + the number of records without a source URL
\* is total.  At no time is a record downloaded or stored twice.
C14_EachRecordCountedOnce ==
    /\ \A i \in Records : hist[i].download <= 1 /\ hist[i].store <= 1
    /\ (SyncCompleted /\ WellFormed) =>
        /\ \A i \in Records :
            HasUrl(i) =>
                /\ hist[i].download = 1
                /\ hist[i].outcome \in ErrorOutcomes \cup {"written"}
                /\ (hist[i].outcome = "written" => hist[i].store = 1)
        /\ summary.processed =
               Cardinality({i \in Records :
                               HasUrl(i) /\ hist[i].outcome = "written"})
        /\ summary.errors =
               Cardinality({i \in Records :
                               HasUrl(i) /\ hist[i].outcome \in ErrorOutcomes})
        /\ summary.processed + summary.errors
               + Cardinality({i \in Records : ~HasUrl(i)}) = summary.total

\* A completed run with a record without a URL, one written, one
\* that ended in the except clause.
C14_Witness ==
    /\ SyncCompleted
    /\ WellFormed
    /\ summary.processed = 1
    /\ summary.errors = 1
    /\ \E i \in Records : ~HasUrl(i)
    /\ \E i \in Records : hist[i].outcome \in {"analyze_raised", "store_raised"}
====
